---- MODULE Spec2Model ----
(***************************************************************************)
(* HAR Performance Analyzer: src/app.py (single upload, Desktop vs Mobile  *)
(* by User-Agent) and src/app_old.py (two uploads, one per device).        *)
(*                                                                         *)
(* Text is a sequence of one-character strings. A number that pandas keeps *)
(* as a float (a mean, a difference, a ratio) is a fraction <<n, d>> in     *)
(* lowest terms with d > 0; <<0, 0>> is NaN and <<1, 0>> is +inf.           *)
(* A value that is None in a row is <<>>, a present value v is <<v>>.       *)
(* Timestamps (startedDateTime, end_time) and the drawing of the charts    *)
(* are not modelled: the charts consume the tables and change none.        *)
(***************************************************************************)
EXTENDS Integers, Sequences, FiniteSets, TLC

VARIABLES pc, files, dfs, out, err, avg_df, desc, score, slowest, domain_avg, summaries

vars == <<pc, files, dfs, out, err, avg_df, desc, score, slowest, domain_avg, summaries>>

(* ------------------------------ bounds -------------------------------- *)
MaxEntries == 2
MaxHeaders == 2
MaxRecords == 6

(* ------------------------------- text --------------------------------- *)
UpperChars == <<"A","B","C","D","E","F","G","H","I","J","K","L","M",
                "N","O","P","Q","R","S","T","U","V","W","X","Y","Z">>
LowerChars == <<"a","b","c","d","e","f","g","h","i","j","k","l","m",
                "n","o","p","q","r","s","t","u","v","w","x","y","z">>

LowerChar(c) ==
    IF \E i \in DOMAIN UpperChars : UpperChars[i] = c
    THEN LowerChars[CHOOSE i \in DOMAIN UpperChars : UpperChars[i] = c]
    ELSE c

\* str.lower()
Lower(s) == [i \in DOMAIN s |-> LowerChar(s[i])]

\* sub in s
Contains(s, sub) ==
    \E i \in 1..(Len(s) - Len(sub) + 1) : SubSeq(s, i, i + Len(sub) - 1) = sub

\* s.split(c) for a one-character separator c
RECURSIVE Split(_, _)
Split(s, c) ==
    IF \A i \in DOMAIN s : s[i] # c
    THEN <<s>>
    ELSE LET i == CHOOSE k \in DOMAIN s : s[k] = c /\ \A j \in 1..(k - 1) : s[j] # c
         IN  <<SubSeq(s, 1, i - 1)>> \o Split(SubSeq(s, i + 1, Len(s)), c)

s_user_agent == <<"u","s","e","r","-","a","g","e","n","t">>
s_Mobile     == <<"M","o","b","i","l","e">>
s_Android    == <<"A","n","d","r","o","i","d">>
s_slashslash == <<"/","/">>

(* ----------------------------- numbers -------------------------------- *)
Max(a, b) == IF a >= b THEN a ELSE b
Abs(a)    == IF a < 0 THEN -a ELSE a

RECURSIVE GCD(_, _)
GCD(a, b) == IF b = 0 THEN a ELSE GCD(b, a % b)

NaN == <<0, 0>>
Inf == <<1, 0>>
IsNaN(x) == x = NaN

\* n / d for d > 0, in lowest terms
Frac(n, d) == LET g == GCD(Abs(n), d) IN <<n \div g, d \div g>>

FracSub(a, b) == Frac(a[1] * b[2] - b[1] * a[2], a[2] * b[2])
FracNeg(a)    == <<-a[1], a[2]>>
FracAbs(a)    == <<Abs(a[1]), a[2]>>
FracLt(a, b)  == a[1] * b[2] < b[1] * a[2]
FracGtZero(a) == a[2] > 0 /\ a[1] > 0
\* numpy float64 division: x/0 is +-inf, 0/0 is nan, no exception
FracDiv(a, b) ==
    IF b[1] = 0 THEN (IF a[1] = 0 THEN NaN ELSE Inf)
    ELSE IF b[1] > 0 THEN Frac(a[1] * b[2], a[2] * b[1])
    ELSE Frac(-(a[1] * b[2]), a[2] * (-b[1]))

RECURSIVE SumSeq(_)
SumSeq(s) == IF s = <<>> THEN 0 ELSE Head(s) + SumSeq(Tail(s))

\* Series.mean() with skipna: the mean of the present values, NaN when none
MeanOf(vals) == IF vals = <<>> THEN NaN ELSE Frac(SumSeq(vals), Len(vals))

(* ------------------------------ inputs -------------------------------- *)
\* dict.get(k, d)
Get(t, k, d) == IF k \in DOMAIN t THEN t[k] ELSE d

None == <<>>
Some(v) == <<v>>

n_UserAgent == <<"U","s","e","r","-","A","g","e","n","t">>
n_USERAGENT == <<"U","S","E","R","-","A","G","E","N","T">>
n_Accept    == <<"A","c","c","e","p","t">>
v_Win       == <<"W","i","n">>
v_iMobile   == <<"i","M","o","b","i","l","e">>
v_Android   == <<"A","n","d","r","o","i","d","9">>
v_mobile    == <<"m","o","b","i","l","e">>

u_ax  == <<"h",":","/","/","a","/","x">>
u_axq == <<"h",":","/","/","a","/","x","?","q">>
u_b   == <<"h",":","/","/","b","/">>
u_c   == <<"c">>

HeaderNames  == {n_UserAgent, n_USERAGENT, n_Accept}
HeaderValues == {v_Win, v_iMobile, v_Android, v_mobile}
Headers      == [name : HeaderNames, value : HeaderValues]

SeqsUpTo(S, n) == UNION {[1..k -> S] : k \in 0..n}

RawVals    == {-1, 0, 3}
TimingKeys == {"dns", "connect", "ssl", "wait", "receive"}
\* every timings object over the five keys the extractors read, keys may be missing
AllTimings == UNION {[K -> RawVals] : K \in SUBSET TimingKeys}

DesktopHeaders == <<[name |-> n_Accept, value |-> v_Win], [name |-> n_UserAgent, value |-> v_Win]>>
MobileHeaders  == <<[name |-> n_USERAGENT, value |-> v_Android]>>

FullTimings(dns, wait) ==
    [dns |-> dns, connect |-> 1, ssl |-> 0, wait |-> wait, receive |-> 0, blocked |-> -1]

\* one entry with every timing combination, one with every header list
TimingEntries == [time : {-1, 0, 5}, timings : AllTimings, url : {u_axq}, headers : {DesktopHeaders}]
HeaderEntries == [time : {5}, timings : {FullTimings(3, 0)}, url : {u_ax},
                  headers : SeqsUpTo(Headers, MaxHeaders)]
\* the entries of the documents with several entries
PoolEntries   == {[time |-> t, timings |-> FullTimings(d, t), url |-> u_ax, headers |-> h] :
                    t \in {0, 4, 6}, d \in {-1, 2, 4}, h \in {DesktopHeaders, MobileHeaders}}
OldPoolEntries == {[time |-> t, timings |-> FullTimings(d, t), url |-> u_ax, headers |-> <<>>] :
                    t \in {0, 4, 6}, d \in {-1, 2, 4}}
\* the entries of the bottleneck documents: two domains, tied totals
RankEntry(t, u) == [time |-> t, timings |-> FullTimings(0, 1), url |-> u, headers |-> DesktopHeaders]
RankEntries   == {RankEntry(1, u_axq), RankEntry(2, u_b), RankEntry(2, u_c)}

Har(es) == [kind |-> "har", entries |-> es]
\* a document that is not JSON, and a JSON document without log.entries
Malformed == {[kind |-> "notjson", entries |-> <<>>], [kind |-> "nolog", entries |-> <<>>]}

AppDocs  == Malformed \cup {Har(<<e>>) : e \in TimingEntries \cup HeaderEntries}
                      \cup {Har(es) : es \in SeqsUpTo(PoolEntries, MaxEntries)}
OldDocs  == Malformed \cup {Har(es) : es \in SeqsUpTo(OldPoolEntries, MaxEntries)}
RankDocs == {Har(es) : es \in SeqsUpTo(RankEntries, MaxRecords)}

(* --------------------- extract_metrics (app.py) ----------------------- *)
IsUserAgent(h) == Lower(h.name) = s_user_agent

\* the value of the first User-Agent header, "" when there is none
UserAgent(headers) ==
    IF \E i \in DOMAIN headers : IsUserAgent(headers[i])
    THEN headers[CHOOSE i \in DOMAIN headers :
                    IsUserAgent(headers[i]) /\ \A j \in 1..(i - 1) : ~IsUserAgent(headers[j])].value
    ELSE <<>>

\* the loop without its break: any User-Agent header decides
DeviceTypeAnyHeader(headers) ==
    IF \E i \in DOMAIN headers :
          IsUserAgent(headers[i])
          /\ (Contains(headers[i].value, s_Mobile) \/ Contains(headers[i].value, s_Android))
    THEN "Mobile" ELSE "Desktop"

DeviceType(headers) ==
    LET user_agent == UserAgent(headers)
    IN  IF Contains(user_agent, s_Mobile) \/ Contains(user_agent, s_Android)
        THEN "Mobile" ELSE "Desktop"

\* None if the value is negative (reuse), else the value
NoneIfNegative(v) == IF v < 0 THEN None ELSE Some(v)

ExtractRow(e) ==
    LET timings == e.timings
    IN  [url |-> Split(e.url, "?")[1],
         device |-> DeviceType(e.headers),
         dns |-> NoneIfNegative(Get(timings, "dns", 0)),
         connect |-> NoneIfNegative(Get(timings, "connect", 0)),
         ssl |-> NoneIfNegative(Get(timings, "ssl", 0)),
         ttfb |-> Max(Get(timings, "wait", 0), 0),
         receive |-> Max(Get(timings, "receive", 0), 0),
         total |-> e.time,
         dns_reused |-> Get(timings, "dns", 0) < 0,
         conn_reused |-> Get(timings, "connect", 0) < 0,
         ssl_reused |-> Get(timings, "ssl", 0) < 0]

extract_metrics(entries) == [i \in DOMAIN entries |-> ExtractRow(entries[i])]

(* ----------------------- parse_har (app_old.py) ----------------------- *)
ParseRow(e) ==
    LET timings == e.timings
    IN  [URL |-> e.url,
         TotalTime |-> e.time,
         DNS |-> Max(Get(timings, "dns", 0), 0),
         Connect |-> Max(Get(timings, "connect", 0), 0),
         SSL |-> Max(Get(timings, "ssl", 0), 0),
         TTFB |-> Max(Get(timings, "wait", 0), 0),
         Receive |-> Max(Get(timings, "receive", 0), 0),
         Blocked |-> Max(Get(timings, "blocked", 0), 0)]

parse_har(entries) == [i \in DOMAIN entries |-> ParseRow(entries[i])]

(* ---------------------- tables and group means ------------------------ *)
OptCols == {"dns", "connect", "ssl"}
SixCols == <<"dns", "connect", "ssl", "ttfb", "receive", "total">>
Range(s) == {s[i] : i \in DOMAIN s}

\* a cell as pandas holds it: None/NaN is <<>>, a number v is <<v>>
Cell(r, c) == IF c \in OptCols THEN r[c] ELSE Some(r[c])

\* every row counted, an absent value as 0
PresentAllRows(rows, c) ==
    [i \in DOMAIN rows |-> IF Cell(rows[i], c) = None THEN 0 ELSE Cell(rows[i], c)[1]]

\* the present values of column c, in row order
Present(rows, c) ==
    LET kept == SelectSeq(rows, LAMBDA r : Cell(r, c) # None)
    IN  [i \in DOMAIN kept |-> Cell(kept[i], c)[1]]

\* a column whose every cell is None is an object column, not a numeric one
NumericCols(df) == {c \in Range(SixCols) : Present(df, c) # <<>>}

Devices(df) == {df[i].device : i \in DOMAIN df}
GroupRows(df, g) == SelectSeq(df, LAMBDA r : r.device = g)

\* df.groupby("device").mean(numeric_only=True): one row per device present,
\* one mean per numeric column, over the present values of the group
GroupMeans(df) ==
    [g \in Devices(df) |-> [c \in NumericCols(df) |-> MeanOf(Present(GroupRows(df, g), c))]]

\* df.groupby("device")[[reuse flags]].mean() * 100
CountTrue(rows, f) == Len(SelectSeq(rows, LAMBDA r : r[f]))
ReuseInfo(df) ==
    [g \in Devices(df) |->
        [f \in {"dns_reused", "conn_reused", "ssl_reused"} |->
            Frac(100 * CountTrue(GroupRows(df, g), f), Len(GroupRows(df, g)))]]

(* -------------------- describe_comparison (app.py) -------------------- *)
\* faster = "Mobile" if diff > 0 else "Desktop"
Faster(d_val, m_val) ==
    LET diff == FracSub(d_val, m_val)
    IN  IF FracGtZero(diff) THEN "Mobile" ELSE "Desktop"

\* the line of one component, <<>> when either mean is NaN
ComponentLine(col, d_val, m_val) ==
    IF IsNaN(d_val) \/ IsNaN(m_val) THEN <<>>
    ELSE <<[col |-> col, diff |-> FracSub(d_val, m_val), faster |-> Faster(d_val, m_val),
            by |-> FracAbs(FracSub(d_val, m_val))]>>

RECURSIVE ComponentLines(_, _, _)
ComponentLines(cols, desktop, mobile) ==
    IF cols = <<>> THEN <<>>
    ELSE ComponentLine(Head(cols), desktop[Head(cols)], mobile[Head(cols)])
         \o ComponentLines(Tail(cols), desktop, mobile)

\* desktop["total"] / mobile["total"] if mobile["total"] > 0 else nan
Ratio(desktop_total, mobile_total) ==
    IF FracGtZero(mobile_total) THEN FracDiv(desktop_total, mobile_total) ELSE NaN

NoReport == [kind |-> "none", ratio |-> NaN, lines |-> <<>>]

\* the guard left out
TooFewGroupsNever(summary) == FALSE

\* len(summary) < 2
TooFewGroups(summary) == Cardinality(DOMAIN summary) < 2

describe_comparison(df) ==
    LET summary == GroupMeans(df)
    IN  IF TooFewGroups(summary)
        THEN [kind |-> "single", ratio |-> NaN, lines |-> <<>>]
        \* summary.loc[..] of a missing device and desktop[col] of a column that
        \* numeric_only dropped both raise KeyError
        ELSE IF "Desktop" \notin DOMAIN summary \/ "Mobile" \notin DOMAIN summary
                \/ \E c \in Range(SixCols) : c \notin NumericCols(df)
        THEN [kind |-> "KeyError", ratio |-> NaN, lines |-> <<>>]
        ELSE LET desktop == summary["Desktop"]
                 mobile  == summary["Mobile"]
             IN  [kind |-> "report",
                  ratio |-> Ratio(desktop["total"], mobile["total"]),
                  lines |-> ComponentLines(SixCols, desktop, mobile)]

(* --------------------- performance_score (app.py) --------------------- *)
FracLe(a, b) == a[1] * b[2] <= b[1] * a[2]

performance_score(df) ==
    LET avg_total == MeanOf(Present(df, "total"))
    IN  IF FracLe(avg_total, <<300, 1>>) THEN <<95, "A">>
        ELSE IF FracLe(avg_total, <<600, 1>>) THEN <<85, "B">>
        ELSE IF FracLe(avg_total, <<1000, 1>>) THEN <<70, "C">>
        ELSE IF FracLe(avg_total, <<2000, 1>>) THEN <<55, "D">>
        ELSE <<40, "E">>

(* ---------------------- find_bottlenecks (app.py) --------------------- *)
TopK == 5

RECURSIVE PermsOf(_)
PermsOf(S) == IF S = {} THEN {<<>>}
              ELSE UNION {{<<x>> \o p : p \in PermsOf(S \ {x})} : x \in S}

\* sort_values(ascending=False) with the default kind="quicksort", which is
\* not stable: every order of the keys I that is descending in key[_] is a
\* possible result, equal keys in any order
RECURSIVE DescendingOrders(_, _)
DescendingOrders(I, key) ==
    IF I = {} THEN {<<>>}
    ELSE LET top == {i \in I : \A j \in I : \neg FracLt(key[i], key[j])}
         IN  {p \o q : p \in PermsOf(top), q \in DescendingOrders(I \ top, key)}

\* .head(n)
HeadN(s, n) == SubSeq(s, 1, IF Len(s) < n THEN Len(s) ELSE n)

\* x.split("/")[2] if "//" in x else x
DomainOf(x) == IF Contains(x, s_slashslash) THEN Split(x, "/")[3] ELSE x

\* the index labels of the rows that may be returned as slowest
SlowestOrders(df) ==
    {HeadN(o, TopK) : o \in DescendingOrders(DOMAIN df, [i \in DOMAIN df |-> <<df[i].total, 1>>])}

Domains(df) == {DomainOf(df[i].url) : i \in DOMAIN df}
DomainMean(df, d) == MeanOf(Present(SelectSeq(df, LAMBDA r : DomainOf(r.url) = d), "total"))

\* the domains that may be returned, each with its mean total
DomainOrders(df) ==
    {HeadN([i \in DOMAIN o |-> [domain |-> o[i], mean |-> DomainMean(df, o[i])]], TopK) :
        o \in DescendingOrders(Domains(df), [d \in Domains(df) |-> DomainMean(df, d)])}

(* --------------------------- main (app.py) ---------------------------- *)
Emit(section) == out' = Append(out, section)
Raise(e) == /\ err' = e
            /\ pc' = "raised"

\* if uploaded_file: har_data = json.load(uploaded_file) ... else: st.info
AppLoad ==
    /\ pc = "main"
    /\ IF files = <<>>
       THEN Emit("info") /\ pc' = "footer" /\ UNCHANGED err
       ELSE IF files[1].kind = "notjson"
       THEN Raise("JSONDecodeError") /\ UNCHANGED out
       ELSE pc' = "extract" /\ UNCHANGED <<out, err>>
    /\ UNCHANGED <<files, dfs, avg_df, desc, score, slowest, domain_avg, summaries>>

\* df = extract_metrics(har_data)
AppExtract ==
    /\ pc = "extract"
    /\ IF files[1].kind = "nolog" \/ files[1].entries = <<>>
       THEN Raise("KeyError") /\ UNCHANGED dfs
       ELSE dfs' = <<extract_metrics(files[1].entries)>> /\ pc' = "table" /\ UNCHANGED err
    /\ UNCHANGED <<files, out, avg_df, desc, score, slowest, domain_avg, summaries>>

AppShowTable ==
    /\ pc = "table"
    /\ Emit("table")
    /\ pc' = "bar"
    /\ UNCHANGED <<files, dfs, err, avg_df, desc, score, slowest, domain_avg, summaries>>

AppBarChart ==
    /\ pc = "bar"
    /\ avg_df' = GroupMeans(dfs[1])
    /\ Emit("bar_chart")
    /\ pc' = "timeline"
    /\ UNCHANGED <<files, dfs, err, desc, score, slowest, domain_avg, summaries>>

AppTimeline ==
    /\ pc = "timeline"
    /\ Emit("timeline")
    /\ pc' = "describe"
    /\ UNCHANGED <<files, dfs, err, avg_df, desc, score, slowest, domain_avg, summaries>>

\* st.markdown(describe_comparison(df))
AppDescribe ==
    /\ pc = "describe"
    /\ LET d == describe_comparison(dfs[1])
       IN  IF d.kind = "KeyError"
           THEN Raise("KeyError") /\ UNCHANGED <<out, desc>>
           ELSE desc' = d /\ Emit("comparison") /\ pc' = "score" /\ UNCHANGED err
    /\ UNCHANGED <<files, dfs, avg_df, score, slowest, domain_avg, summaries>>

AppScore ==
    /\ pc = "score"
    /\ score' = performance_score(dfs[1])
    /\ Emit("score")
    /\ pc' = "bottleneck"
    /\ UNCHANGED <<files, dfs, err, avg_df, desc, slowest, domain_avg, summaries>>

\* slowest, domain_avg = find_bottlenecks(df), and the two tables shown
AppBottlenecks ==
    /\ pc = "bottleneck"
    /\ slowest' \in SlowestOrders(dfs[1])
    /\ domain_avg' \in DomainOrders(dfs[1])
    /\ Emit("bottlenecks")
    /\ pc' = "insight"
    /\ UNCHANGED <<files, dfs, err, avg_df, desc, score, summaries>>

AppInsight ==
    /\ pc = "insight"
    /\ Emit("insight")
    /\ pc' = "footer"
    /\ UNCHANGED <<files, dfs, err, avg_df, desc, score, slowest, domain_avg, summaries>>

\* st.markdown("---"); st.caption(...)
AppFooter ==
    /\ pc = "footer"
    /\ Emit("footer")
    /\ pc' = "done"
    /\ UNCHANGED <<files, dfs, err, avg_df, desc, score, slowest, domain_avg, summaries>>

InitWith(F) ==
    /\ pc = "main"
    /\ files \in F
    /\ dfs = <<>>
    /\ out = <<"title">>
    /\ err = "none"
    /\ avg_df = <<>>
    /\ desc = NoReport
    /\ score = <<0, "">>
    /\ slowest = <<>>
    /\ domain_avg = <<>>
    /\ summaries = <<>>

Init == InitWith({<<>>} \cup {<<d>> : d \in AppDocs})

Next ==
    \/ AppLoad
    \/ AppExtract
    \/ AppShowTable
    \/ AppBarChart
    \/ AppTimeline
    \/ AppDescribe
    \/ AppScore
    \/ AppBottlenecks
    \/ AppInsight
    \/ AppFooter

Spec == Init /\ [][Next]_vars

\* the same program on longer documents, for the ranking
InitRank == InitWith({<<d>> : d \in RankDocs})
SpecRank == InitRank /\ [][Next]_vars

(* ----------------- analyze_performance (app_old.py) ------------------- *)
Metrics == <<"DNS", "Connect", "SSL", "TTFB", "Receive", "TotalTime">>
Described == Range(Metrics) \cup {"Blocked"}

\* n / d rounded to two decimals (half to even), as a fraction; d > 0
Round2(n, d) ==
    LET q == (100 * n) \div d
        r == (100 * n) % d
        h == IF 2 * r < d THEN q
             ELSE IF 2 * r > d THEN q + 1
             ELSE IF q % 2 = 0 THEN q ELSE q + 1
    IN  Frac(h, 100)

ColumnOf(df, m) == [i \in DOMAIN df |-> df[i][m]]
MaxOf(vals) == CHOOSE v \in Range(vals) : \A w \in Range(vals) : w <= v
MinOf(vals) == CHOOSE v \in Range(vals) : \A w \in Range(vals) : v <= w

\* df.describe().T[["mean", "max", "min"]].round(2), of a table with rows
Summary(df) ==
    [m \in Described |->
        [mean |-> Round2(SumSeq(ColumnOf(df, m)), Len(df)),
         max  |-> <<MaxOf(ColumnOf(df, m)), 1>>,
         min  |-> <<MinOf(ColumnOf(df, m)), 1>>]]

(* ----------------- generate_description (app_old.py) ------------------ *)
FracMax(a, b) == IF FracLt(a, b) THEN b ELSE a
FracMin(a, b) == IF FracLt(b, a) THEN b ELSE a

\* diff = avg2 - avg1; label2 is "slower" when diff > 0, else "faster"
MetricLine(metric, avg1, avg2, label1, label2) ==
    LET diff == FracSub(avg2, avg1)
    IN  [col |-> metric, diff |-> diff,
         faster |-> IF FracGtZero(diff) THEN label1 ELSE label2,
         by |-> FracAbs(diff)]

generate_description(summary1, summary2, label1, label2) ==
    LET total1 == summary1["TotalTime"].mean
        total2 == summary2["TotalTime"].mean
        faster == IF FracLt(total1, total2) THEN label1 ELSE label2
    IN  [kind |-> "report",
         lines |-> [i \in DOMAIN Metrics |->
                       MetricLine(Metrics[i], summary1[Metrics[i]].mean,
                                  summary2[Metrics[i]].mean, label1, label2)],
         faster |-> faster,
         slower |-> IF faster = label1 THEN label2 ELSE label1,
         ratio |-> FracDiv(FracMax(total1, total2), FracMin(total1, total2))]

(* ------------------------- main (app_old.py) -------------------------- *)
\* if desktop_file and mobile_file: st.success(...) ... else: st.info(...)
OldStart ==
    /\ pc = "main"
    /\ IF Len(files) < 2
       THEN Emit("info") /\ pc' = "done"
       ELSE Emit("success") /\ pc' = "parse_desktop"
    /\ UNCHANGED <<files, dfs, err, avg_df, desc, score, slowest, domain_avg, summaries>>

\* parse_har(file): json.load, data["log"]["entries"], the rows
OldParse(i, next) ==
    /\ IF files[i].kind = "notjson"
       THEN Raise("JSONDecodeError") /\ UNCHANGED dfs
       ELSE IF files[i].kind = "nolog"
       THEN Raise("KeyError") /\ UNCHANGED dfs
       ELSE dfs' = Append(dfs, parse_har(files[i].entries)) /\ pc' = next /\ UNCHANGED err
    /\ UNCHANGED <<files, out, avg_df, desc, score, slowest, domain_avg, summaries>>

OldParseDesktop ==
    /\ pc = "parse_desktop"
    /\ OldParse(1, "parse_mobile")

OldParseMobile ==
    /\ pc = "parse_mobile"
    /\ OldParse(2, "analyze")

\* analyze_performance of each table; describe() of a table without rows raises
OldAnalyze ==
    /\ pc = "analyze"
    /\ IF dfs[1] = <<>> \/ dfs[2] = <<>>
       THEN Raise("ValueError") /\ UNCHANGED summaries
       ELSE summaries' = <<Summary(dfs[1]), Summary(dfs[2])>> /\ pc' = "summary" /\ UNCHANGED err
    /\ UNCHANGED <<files, dfs, out, avg_df, desc, score, slowest, domain_avg>>

OldShowSummary ==
    /\ pc = "summary"
    /\ Emit("summary")
    /\ pc' = "plot"
    /\ UNCHANGED <<files, dfs, err, avg_df, desc, score, slowest, domain_avg, summaries>>

OldPlot ==
    /\ pc = "plot"
    /\ Emit("bar_chart")
    /\ pc' = "describe"
    /\ UNCHANGED <<files, dfs, err, avg_df, desc, score, slowest, domain_avg, summaries>>

OldDescribe ==
    /\ pc = "describe"
    /\ desc' = generate_description(summaries[1], summaries[2], "Desktop", "Mobile")
    /\ Emit("comparison")
    /\ pc' = "anomalies"
    /\ UNCHANGED <<files, dfs, err, avg_df, score, slowest, domain_avg, summaries>>

OldAnomalies ==
    /\ pc = "anomalies"
    /\ Emit("anomalies")
    /\ pc' = "done"
    /\ UNCHANGED <<files, dfs, err, avg_df, desc, score, slowest, domain_avg, summaries>>

OldFixedDoc == Har(<<[time |-> 4, timings |-> FullTimings(2, 4), url |-> u_ax, headers |-> <<>>]>>)

OldFiles ==
    {<<>>} \cup {<<d>> : d \in OldDocs}
           \cup (OldDocs \X OldDocs)
           \cup {<<Har(<<e>>), OldFixedDoc>> : e \in TimingEntries}

InitOld == InitWith(OldFiles)

NextOld ==
    \/ OldStart
    \/ OldParseDesktop
    \/ OldParseMobile
    \/ OldAnalyze
    \/ OldShowSummary
    \/ OldPlot
    \/ OldDescribe
    \/ OldAnomalies

SpecOld == InitOld /\ [][NextOld]_vars

(* ============================== claims =============================== *)
Entries(i) == files[i].entries
Extracted == dfs # <<>>
RawOf(e, k) == Get(e.timings, k, 0)

RECURSIVE SumOver(_, _)
SumOver(I, f) == IF I = {} THEN 0
                 ELSE LET i == CHOOSE x \in I : TRUE IN f[i] + SumOver(I \ {i}, f)

OptionalNonNegative(v) == v = None \/ v[1] >= 0

\* C1: every record the extractors produce has each of dns, connect, ssl,
\* ttfb, receive and total either absent or >= 0, never negative
C1_NoNegativeDuration ==
    \A t \in DOMAIN dfs : \A i \in DOMAIN dfs[t] :
        LET r == dfs[t][i]
        IN  IF "total" \in DOMAIN r
            THEN /\ \A c \in OptCols : OptionalNonNegative(r[c])
                 /\ r.ttfb >= 0 /\ r.receive >= 0 /\ r.total >= 0
            ELSE \A m \in Range(Metrics) : r[m] >= 0

Reported == desc.kind = "report"

\* C2: for every compared component the verdict is three-way on
\* diff = Desktop mean - Mobile mean: Mobile faster when diff > 0, Desktop
\* faster when diff < 0, a tie when diff = 0
C2_ThreeWayVerdict ==
    (Reported /\ avg_df # <<>>) =>
        \A k \in DOMAIN desc.lines :
            LET c    == desc.lines[k].col
                diff == FracSub(avg_df["Desktop"][c], avg_df["Mobile"][c])
            IN  /\ diff[1] > 0 => desc.lines[k].faster = "Mobile"
                /\ diff[1] < 0 => desc.lines[k].faster = "Desktop"
                /\ diff[1] = 0 => desc.lines[k].faster = "tie"

\* C3: the mean of dns, connect and ssl of every device group is the sum of
\* the group's non-negative raw values divided by their number; the
\* records with a negative raw value count in neither
C3_MeanOverPresent ==
    \A g \in DOMAIN avg_df : \A c \in OptCols :
        LET I   == {i \in DOMAIN dfs[1] : dfs[1][i].device = g /\ RawOf(Entries(1)[i], c) >= 0}
            sum == SumOver(I, [i \in I |-> RawOf(Entries(1)[i], c)])
        IN  IF I = {}
            THEN c \in DOMAIN avg_df[g] => IsNaN(avg_df[g][c])
            ELSE /\ c \in DOMAIN avg_df[g]
                 /\ avg_df[g][c][2] > 0
                 /\ avg_df[g][c][1] * Cardinality(I) = sum * avg_df[g][c][2]

\* a group of two records, dns absent in one and 2 in the other, with mean 2
C3_Witness ==
    \E g \in DOMAIN avg_df :
        /\ Len(GroupRows(dfs[1], g)) = 2
        /\ \E i, j \in DOMAIN dfs[1] :
              /\ dfs[1][i].device = g /\ dfs[1][j].device = g
              /\ RawOf(Entries(1)[i], "dns") = -1 /\ RawOf(Entries(1)[j], "dns") = 2
        /\ avg_df[g]["dns"] = <<2, 1>>

\* C4: when the mean total that the ratio divides by is exactly 0 (Mobile's
\* in app.py, the smaller of the two in app_old.py) the ratio is marked
\* not-applicable, neither zero nor infinity, and all six component
\* differences are still reported
C4_ZeroDenominatorNotApplicable ==
    Reported =>
        LET denominator ==
                IF summaries # <<>>
                THEN FracMin(summaries[1]["TotalTime"].mean, summaries[2]["TotalTime"].mean)
                ELSE avg_df["Mobile"]["total"]
        IN  denominator[1] = 0 => (IsNaN(desc.ratio) /\ Len(desc.lines) = Len(SixCols))

SingleDevice == Extracted /\ Cardinality({dfs[1][i].device : i \in DOMAIN dfs[1]}) = 1
AfterDescribe == pc \in {"score", "bottleneck", "insight", "footer", "done"}

ResultSections ==
    {"success", "table", "bar_chart", "timeline", "summary", "comparison", "score",
     "bottlenecks", "insight", "anomalies"}

\* C6: when an uploaded document is not JSON or lacks log.entries, no result
\* section is emitted before or after the failure and the run does not end
\* in an unhandled exception
C6_MalformedInputReported ==
    (Len(files) = 2 /\ \E i \in DOMAIN files : files[i].kind # "har") =>
        /\ Range(out) \cap ResultSections = {}
        /\ pc # "raised"

\* C7: find_bottlenecks returns at most 5 records, the largest totals in
\* descending order with equal totals in input order, and at most 5 domains
\* in descending order of mean total; the table is left unchanged
C7_StableTop5 ==
    pc \in {"insight", "footer", "done"} =>
        LET df == dfs[1]
            n  == Len(slowest)
        IN  /\ n = (IF Len(df) < TopK THEN Len(df) ELSE TopK)
            /\ \A a, b \in 1..n : a < b =>
                  /\ slowest[a] # slowest[b]
                  /\ df[slowest[a]].total >= df[slowest[b]].total
                  /\ df[slowest[a]].total = df[slowest[b]].total => slowest[a] < slowest[b]
            /\ \A a \in 1..n : \A i \in DOMAIN df \ Range(slowest) :
                  df[i].total <= df[slowest[a]].total
            /\ Len(domain_avg) <= TopK
            /\ \A a, b \in DOMAIN domain_avg : a < b =>
                  \neg FracLt(domain_avg[a].mean, domain_avg[b].mean)
            /\ df = extract_metrics(Entries(1))

HasMobileWord(v) == Contains(v, s_Mobile) \/ Contains(v, s_Android)

\* C8 as stated: a record is Mobile exactly when some request header named
\* user-agent (ignoring case) has a value containing "Mobile" or "Android"
C8_AnyUserAgentHeader ==
    Extracted =>
        \A i \in DOMAIN dfs[1] :
            LET h == Entries(1)[i].headers
            IN  dfs[1][i].device = "Mobile" <=>
                    \E k \in DOMAIN h : Lower(h[k].name) = s_user_agent /\ HasMobileWord(h[k].value)

\* C8 amended: a record is Mobile exactly when the first request header
\* named user-agent (ignoring case) has a value containing "Mobile" or
\* "Android"; otherwise, also without such a header, it is Desktop
C8_FirstUserAgentHeader ==
    Extracted =>
        \A i \in DOMAIN dfs[1] :
            LET h == Entries(1)[i].headers
            IN  /\ dfs[1][i].device \in {"Mobile", "Desktop"}
                /\ dfs[1][i].device = "Mobile" <=>
                     \E k \in DOMAIN h :
                        /\ Lower(h[k].name) = s_user_agent
                        /\ \A j \in 1..(k - 1) : Lower(h[j].name) # s_user_agent
                        /\ HasMobileWord(h[k].value)

\* a Mobile record found through an upper-case USER-AGENT header in second place
C8_Witness ==
    /\ Extracted
    /\ \E i \in DOMAIN dfs[1] :
          LET h == Entries(1)[i].headers
          IN  /\ Len(h) = 2
              /\ h[1].name = n_Accept
              /\ h[2] = [name |-> n_USERAGENT, value |-> v_iMobile]
              /\ dfs[1][i].device = "Mobile"

\* C9: swapping the two aggregates negates every difference and names the
\* same group faster (or a tie) for every component
C9_SwapInvariant ==
    (Reported /\ avg_df # <<>>) =>
        LET d  == avg_df["Desktop"]
            m  == avg_df["Mobile"]
            ab == ComponentLines(SixCols, d, m)
            ba == ComponentLines(SixCols, m, d)
        IN  /\ Len(ab) = Len(ba)
            /\ \A k \in DOMAIN ab :
                  /\ ba[k].diff = FracNeg(ab[k].diff)
                  \* the first argument carries the label Desktop in both calls
                  /\ ab[k].faster = "Desktop" <=> ba[k].faster = "Mobile"

ColumnOfKey(k) == IF k = "wait" THEN "ttfb" ELSE k

\* C10: one extraction run never turns a negative raw timing of one
\* component into an absent value and that of another into 0
C10_SinglePolicy ==
    Extracted =>
        LET negs == {<<i, k>> \in (DOMAIN dfs[1]) \X TimingKeys : RawOf(Entries(1)[i], k) < 0}
            absent(x)  == Cell(dfs[1][x[1]], ColumnOfKey(x[2])) = None
            clamped(x) == Cell(dfs[1][x[1]], ColumnOfKey(x[2])) = Some(0)
        IN  \neg ((\E x \in negs : absent(x)) /\ (\E y \in negs : clamped(y)))

====
